---- MODULE Spec2Model ----
(***************************************************************************)
(* Moderation relay bot (src/main.py): pending-post registry, per-user     *)
(* posting cooldown and the media / approve / reject handlers.             *)
(*                                                                         *)
(* The Telethon client dispatches every update in its own asyncio task     *)
(* (the client of main.py:24 is built without sequential_updates), so the  *)
(* handlers interleave at their await points and nowhere else.  One action *)
(* of the model is one stretch of a handler between two suspensions: the   *)
(* code from an await's completion up to and including the issue of the    *)
(* next awaited external call.                                             *)
(*                                                                         *)
(* The clock counts whole minutes; time passes between the reads of it.    *)
(***************************************************************************)
EXTENDS Integers, Sequences, FiniteSets, Bags, TLC

\* ---------------------------------------------------------------- bounds
\* Number of handler tasks that may be in flight together.
NHandlers == 2
\* Number of updates (messages, button presses) the bot receives in a run.
MaxEvents == 4
\* Last minute of the clock.
MaxTime == 2
\* Largest id an admin may press or type.
MaxPostId == 1
\* config.py:22 reads the cooldown from the environment (default 30); the
\* model runs with a short cooldown, in minutes.
POST_COOLDOWN_MINUTES == 2

\* ------------------------------------------------------- configuration
\* config.py:13, the admin allowlist, in the order of the environment entry.
ADMIN_IDS == <<1, 2>>

AdminSet == {ADMIN_IDS[i] : i \in 1..Len(ADMIN_IDS)}

\* Senders of updates: the admins 1 and 2, an ordinary user 3, and one
\* sender that is no User (a channel posting in a linked chat).
UserSenders == {1, 2, 3}
OtherSenders == {4}
Senders == UserSenders \cup OtherSenders
\* The senders of media messages in a run (the second admin sends none: it
\* would behave as the first).
MediaSenders == {1, 3, 4}

\* isinstance(event.sender, User), main.py:174
IsUser(s) == s \in UserSenders

\* main.py:32-37
ALLOWED_MIME_TYPES == {"image/jpeg", "image/png", "image/gif", "image/webp"}

\* The media an update may carry: a photo, a document with a MIME type, or
\* any other media (a contact, a poll, ...).
Media == {[type |-> "photo", mime_type |-> ""]}
           \cup {[type |-> "document", mime_type |-> m] :
                    m \in ALLOWED_MIME_TYPES \cup {"application/pdf"}}
           \cup {[type |-> "other", mime_type |-> ""]}

\* is_image_file taking every document, whatever its MIME type.
is_image_file_anyDocument(media) ==
    IF media.type = "photo" THEN TRUE
    ELSE IF media.type = "document" THEN TRUE
    ELSE FALSE

\* main.py:39-48
is_image_file(media) ==
    IF media.type = "photo" THEN TRUE
    ELSE IF media.type = "document" THEN media.mime_type \in ALLOWED_MIME_TYPES
    ELSE FALSE

Handlers == 1..NHandlers
PostIds == 0..MaxPostId
Outcome == {"ok", "fail"}

VARIABLES
    pending_posts,    \* main.py:27  post_id -> [user_id, message, timestamp]
    user_entities,    \* main.py:28  the user ids with a cached entity
    user_cooldowns,   \* main.py:29  user_id -> cooldown end
    now,              \* the latest reading of datetime.now()
    events,           \* number of updates dispatched so far
    handler,          \* the handler tasks in flight: position and locals
    last,             \* history: the handler that returned most recently
    channel,          \* bag of the messages sent to TARGET_CHANNEL
    notices,          \* bag of the notify_user sends: [user_id, text, message]
    accepted,         \* history: the submissions inserted, in order
    deleted           \* history: the del statements that removed an entry

vars == <<pending_posts, user_entities, user_cooldowns, now, events, handler,
          last, channel, notices, accepted, deleted>>

NoPost == [user_id |-> -1, message |-> -1, timestamp |-> -1]

\* A handler task: the handler it runs, its position, its locals post_id
\* and post, the index of the admin loop, the admins it has sent the
\* "New post pending approval" notification to, and the responses it has
\* given to the actor that triggered it.
Idle == [kind |-> "none", pc |-> "idle", post_id |-> -1,
         post |-> NoPost, idx |-> 0, noted |-> {}, resp |-> <<>>]

\* A response to the actor that triggered the handler (event.respond,
\* event.answer, event.edit): its text and the number it carries.
Resp(text, arg) == [text |-> text, arg |-> arg]

Init ==
    /\ pending_posts = <<>>
    /\ user_entities = {}
    /\ user_cooldowns = <<>>
    /\ now = 0
    /\ events = 0
    /\ handler = [h \in Handlers |-> Idle]
    /\ last = Idle
    /\ channel = EmptyBag
    /\ notices = EmptyBag
    /\ accepted = <<>>
    /\ deleted = {}

\* ------------------------------------------------------------ helpers
\* d[k] = v, main.py:195 and main.py:142
Put(d, k, v) == [x \in DOMAIN d \cup {k} |-> IF x = k THEN v ELSE d[x]]

\* del d[k], main.py:249 and main.py:277 (the caller checks k \in DOMAIN d)
Del(d, k) == [x \in DOMAIN d \ {k} |-> d[x]]

\* A task slot is free when no handler runs in it; an update takes the
\* lowest free slot.
Free(h) == handler[h].pc = "idle"

CanStart(h) ==
    /\ events < MaxEvents
    /\ Free(h)
    /\ \A g \in Handlers : g < h => ~Free(g)

\* datetime.now() is read in media_handler alone.  now is the latest
\* reading; a read gives any minute from it on.
Clock == now..MaxTime

\* --------------------------------------------------------- cooldown gate
\* can_user_post with the comparison of line 134 made strict.
can_user_post_strict(cooldowns, user_id, t) ==
    IF user_id \notin DOMAIN cooldowns
    THEN [can_post |-> TRUE, remaining |-> -1]
    ELSE IF t > cooldowns[user_id]
         THEN [can_post |-> TRUE, remaining |-> -1]
         ELSE [can_post |-> FALSE, remaining |-> cooldowns[user_id] - t]

\* main.py:126-138, with datetime.now() read as t
can_user_post(cooldowns, user_id, t) ==
    IF user_id \notin DOMAIN cooldowns
    THEN [can_post |-> TRUE, remaining |-> -1]
    ELSE IF t >= cooldowns[user_id]
         THEN [can_post |-> TRUE, remaining |-> -1]
         ELSE [can_post |-> FALSE, remaining |-> cooldowns[user_id] - t]

\* set_user_cooldown ending the cooldown a minute early.
set_user_cooldown_early(cooldowns, user_id, t) ==
    Put(cooldowns, user_id, t + POST_COOLDOWN_MINUTES - 1)

\* main.py:140-142, with datetime.now() read as t
set_user_cooldown(cooldowns, user_id, t) ==
    Put(cooldowns, user_id, t + POST_COOLDOWN_MINUTES)

\* main.py:187  int(remaining.total_seconds() / 60)
Minutes(remaining) == (remaining * 60) \div 60

\* -------------------------------------------------------- external calls
\* get_user_entity, main.py:65-77: the cached entity, or else the awaited
\* client.get_entity, whose failure is logged and gives None.  o is the
\* outcome of that lookup; the result is the cache after the call.
get_user_entity(entities, user_id, o) ==
    IF user_id \in entities THEN entities
    ELSE IF o = "ok" THEN entities \cup {user_id}
    ELSE entities

\* notify_user, main.py:117-124: the notices after the call.  The send is
\* issued when the entity is there; its failure is logged and swallowed, so
\* the bag counts the sends issued.
notify_user(sent, entities, user_id, text, message) ==
    IF user_id \in entities
    THEN sent (+) SetToBag({[user_id |-> user_id, text |-> text, message |-> message]})
    ELSE sent

\* A handler that has returned.  event.respond, event.answer and event.edit
\* are taken to complete, except the acknowledgement of main.py:204, whose
\* failure ends media_handler before the admin loop.
Ended(kind, post_id, post, noted, resp) ==
    [kind |-> kind, pc |-> "done", post_id |-> post_id,
     post |-> post, idx |-> 0, noted |-> noted, resp |-> resp]

\* The handler of task h returns: the task is over and its final record is
\* the last one returned.
Return(h, record) ==
    /\ handler' = [handler EXCEPT ![h] = Idle]
    /\ last' = record

\* --------------------------------------------------------- media_handler
\* main.py:174-175: the sender is no User, the handler returns at once.
MediaNotUser(h, s, media) ==
    /\ CanStart(h)
    /\ ~IsUser(s)
    /\ events' = events + 1
    /\ Return(h, Ended("media", -1, NoPost, {}, <<>>))
    /\ UNCHANGED <<pending_posts, user_entities, user_cooldowns, now,
                   channel, notices, accepted, deleted>>

\* main.py:178-182: the media is no image.
MediaNotImage(h, s, media) ==
    /\ CanStart(h)
    /\ IsUser(s)
    /\ ~is_image_file(media)
    /\ events' = events + 1
    /\ Return(h, Ended("media", -1, NoPost, {}, <<Resp("not_image", -1)>>))
    /\ UNCHANGED <<pending_posts, user_entities, user_cooldowns, now,
                   channel, notices, accepted, deleted>>

\* MediaCooldown with the cooldown set anew by the rejected attempt.
MediaCooldown_extends(h, s, media, t) ==
    /\ CanStart(h)
    /\ IsUser(s)
    /\ is_image_file(media)
    /\ ~can_user_post(user_cooldowns, s, t).can_post
    /\ events' = events + 1
    /\ now' = t
    /\ user_cooldowns' = set_user_cooldown(user_cooldowns, s, t)
    /\ Return(h, Ended("media", -1, NoPost, {},
                 <<Resp("wait", Minutes(can_user_post(user_cooldowns, s, t).remaining))>>))
    /\ UNCHANGED <<pending_posts, user_entities,
                   channel, notices, accepted, deleted>>

\* main.py:185-191: the cooldown of the sender has not elapsed.
MediaCooldown(h, s, media, t) ==
    /\ CanStart(h)
    /\ IsUser(s)
    /\ is_image_file(media)
    /\ ~can_user_post(user_cooldowns, s, t).can_post
    /\ events' = events + 1
    /\ now' = t
    /\ Return(h, Ended("media", -1, NoPost, {},
                 <<Resp("wait", Minutes(can_user_post(user_cooldowns, s, t).remaining))>>))
    /\ UNCHANGED <<pending_posts, user_entities, user_cooldowns,
                   channel, notices, accepted, deleted>>

\* main.py:194  post_id = len(pending_posts)
NewPostId(posts) == Cardinality(DOMAIN posts)

\* MediaAccept with the cooldown of line 202 not yet set when the handler
\* suspends at line 204.
MediaAccept_unset(h, s, media, t, d, o) ==
    /\ CanStart(h)
    /\ IsUser(s)
    /\ is_image_file(media)
    /\ can_user_post(user_cooldowns, s, t).can_post
    /\ t + d <= MaxTime
    /\ LET post_id == NewPostId(pending_posts)
           post == [user_id |-> s, message |-> Len(accepted) + 1,
                    timestamp |-> t]
       IN  /\ user_entities' = user_entities \cup {s}
           /\ pending_posts' = Put(pending_posts, post_id, post)
           /\ accepted' = Append(accepted,
                  [post_id |-> post_id, user_id |-> s, message |-> post.message,
                   timestamp |-> post.timestamp, set_at |-> t + d])
           /\ IF o = "fail"
              THEN Return(h, Ended("media", post_id, NoPost, {}, <<>>))
              ELSE /\ handler' = [handler EXCEPT ![h] =
                          [kind |-> "media", pc |-> "fanout", post_id |-> post_id,
                           post |-> post, idx |-> 1, noted |-> {},
                           resp |-> <<Resp("received", post_id)>>]]
                   /\ last' = last
    /\ now' = t + d
    /\ events' = events + 1
    /\ UNCHANGED <<user_cooldowns, channel, notices, deleted>>

\* main.py:185-206: the submission is taken.  The check of line 185 and the
\* timestamp of line 198 read the clock as t, the cooldown of line 202 reads
\* it again, d later.  No await lies between the check of line 185 and
\* line 202.  The message of the update is numbered as the k-th one taken.  The
\* acknowledgement of line 204 may fail (o), which ends the handler.
MediaAccept(h, s, media, t, d, o) ==
    /\ CanStart(h)
    /\ IsUser(s)
    /\ is_image_file(media)
    /\ can_user_post(user_cooldowns, s, t).can_post
    /\ t + d <= MaxTime
    /\ LET post_id == NewPostId(pending_posts)
           post == [user_id |-> s, message |-> Len(accepted) + 1,
                    timestamp |-> t]
       IN  /\ user_entities' = user_entities \cup {s}
           /\ pending_posts' = Put(pending_posts, post_id, post)
           /\ user_cooldowns' = set_user_cooldown(user_cooldowns, s, t + d)
           /\ accepted' = Append(accepted,
                  [post_id |-> post_id, user_id |-> s, message |-> post.message,
                   timestamp |-> post.timestamp, set_at |-> t + d])
           /\ IF o = "fail"
              THEN Return(h, Ended("media", post_id, NoPost, {}, <<>>))
              ELSE /\ handler' = [handler EXCEPT ![h] =
                          [kind |-> "media", pc |-> "fanout", post_id |-> post_id,
                           post |-> post, idx |-> 1, noted |-> {},
                           resp |-> <<Resp("received", post_id)>>]]
                   /\ last' = last
    /\ now' = t + d
    /\ events' = events + 1
    /\ UNCHANGED <<channel, notices, deleted>>

\* main.py:216-228: one round of the loop over ADMIN_IDS.  The entity of
\* the admin is looked up (outcome o of client.get_entity when it is not
\* cached); with an entity the notification carrying the id is sent and the
\* message forwarded.  Every failure is logged and the loop goes on.
MediaFanout(h, o) ==
    /\ handler[h].kind = "media"
    /\ handler[h].pc = "fanout"
    /\ LET admin_id == ADMIN_IDS[handler[h].idx]
           entities == get_user_entity(user_entities, admin_id, o)
           noted == IF admin_id \in entities
                    THEN handler[h].noted \cup {admin_id}
                    ELSE handler[h].noted
       IN  /\ user_entities' = entities
           /\ IF handler[h].idx = Len(ADMIN_IDS)
              THEN Return(h, Ended("media", handler[h].post_id, NoPost,
                                   noted, handler[h].resp))
              ELSE /\ handler' = [handler EXCEPT ![h] =
                          [@ EXCEPT !.idx = @ + 1, !.noted = noted]]
                   /\ last' = last
    /\ UNCHANGED <<pending_posts, user_cooldowns, now, events,
                   channel, notices, accepted, deleted>>

\* ------------------------------------------------------ approve_callback
\* IsAdmin testing for a User instead of the allowlist.
IsAdmin_anyUser(sender_id) == IsUser(sender_id)

\* event.sender_id in ADMIN_IDS, main.py:233 and main.py:265
IsAdmin(sender_id) == sender_id \in AdminSet

\* main.py:233-235: the sender is no admin.
ApproveDenied(h, s, p) ==
    /\ CanStart(h)
    /\ ~IsAdmin(s)
    /\ events' = events + 1
    /\ Return(h, Ended("approve", -1, NoPost, {}, <<Resp("denied", -1)>>))
    /\ UNCHANGED <<pending_posts, user_entities, user_cooldowns, now,
                   channel, notices, accepted, deleted>>

\* ApproveInvalid without the membership test of line 239: the read of
\* line 243 raises KeyError and the handler answers the generic error.
ApproveInvalid_keyError(h, s, p) ==
    /\ CanStart(h)
    /\ IsAdmin(s)
    /\ p \notin DOMAIN pending_posts
    /\ events' = events + 1
    /\ Return(h, Ended("approve", p, NoPost, {}, <<Resp("error", -1)>>))
    /\ UNCHANGED <<pending_posts, user_entities, user_cooldowns, now,
                   channel, notices, accepted, deleted>>

\* main.py:238-241: the id is not in pending_posts.
ApproveInvalid(h, s, p) ==
    /\ CanStart(h)
    /\ IsAdmin(s)
    /\ p \notin DOMAIN pending_posts
    /\ events' = events + 1
    /\ Return(h, Ended("approve", p, NoPost, {}, <<Resp("invalid_id", -1)>>))
    /\ UNCHANGED <<pending_posts, user_entities, user_cooldowns, now,
                   channel, notices, accepted, deleted>>

\* ApproveStart with notify_user called before send_to_channel.
ApproveStart_notifyFirst(h, s, p) ==
    /\ CanStart(h)
    /\ IsAdmin(s)
    /\ p \in DOMAIN pending_posts
    /\ events' = events + 1
    /\ handler' = [handler EXCEPT ![h] =
           [kind |-> "approve", pc |-> "relay", post_id |-> p,
            post |-> pending_posts[p], idx |-> 0, noted |-> {}, resp |-> <<>>]]
    /\ last' = last
    /\ notices' = notify_user(notices, user_entities, pending_posts[p].user_id,
                              "approved", pending_posts[p].message)
    /\ UNCHANGED <<pending_posts, user_entities, user_cooldowns, now,
                   channel, accepted, deleted>>

\* main.py:238-244: the id is pending; the handler reads the post and
\* awaits send_to_channel.
ApproveStart(h, s, p) ==
    /\ CanStart(h)
    /\ IsAdmin(s)
    /\ p \in DOMAIN pending_posts
    /\ events' = events + 1
    /\ handler' = [handler EXCEPT ![h] =
           [kind |-> "approve", pc |-> "relay", post_id |-> p,
            post |-> pending_posts[p], idx |-> 0, noted |-> {}, resp |-> <<>>]]
    /\ last' = last
    /\ UNCHANGED <<pending_posts, user_entities, user_cooldowns, now,
                   channel, notices, accepted, deleted>>

\* ApproveRelayFailed with the post removed before the relay was tried, so
\* that the failed relay leaves it removed.
ApproveRelayFailed_removes(h) ==
    /\ handler[h].kind = "approve"
    /\ handler[h].pc = "relay"
    /\ pending_posts' =
           IF handler[h].post_id \in DOMAIN pending_posts
           THEN Del(pending_posts, handler[h].post_id)
           ELSE pending_posts
    /\ Return(h,
           Ended("approve", handler[h].post_id, handler[h].post, {},
                 <<Resp("relay_failed", -1)>>))
    /\ UNCHANGED <<user_entities, user_cooldowns, now, events,
                   channel, notices, accepted, deleted>>

\* main.py:244-246 with send_to_channel (main.py:95-115) returning False:
\* the channel entity was not found or the send raised.  The handler
\* answers the failure and returns; pending_posts is not touched.
ApproveRelayFailed(h) ==
    /\ handler[h].kind = "approve"
    /\ handler[h].pc = "relay"
    /\ Return(h, Ended("approve", handler[h].post_id, handler[h].post, {},
                 <<Resp("relay_failed", -1)>>))
    /\ UNCHANGED <<pending_posts, user_entities, user_cooldowns, now, events,
                   channel, notices, accepted, deleted>>

\* main.py:244-248 with send_to_channel returning True: the message of the
\* post the handler read is in the channel, and notify_user is called with
\* the submitter of that post (o: the entity lookup when it is not cached).
ApproveRelayed(h, o) ==
    /\ handler[h].kind = "approve"
    /\ handler[h].pc = "relay"
    /\ LET post == handler[h].post
           entities == get_user_entity(user_entities, post.user_id, o)
       IN  /\ channel' = channel (+) SetToBag({post.message})
           /\ user_entities' = entities
           /\ notices' = notify_user(notices, entities, post.user_id,
                                     "approved", post.message)
    /\ handler' = [handler EXCEPT ![h].pc = "notify"]
    /\ last' = last
    /\ UNCHANGED <<pending_posts, user_cooldowns, now, events, accepted, deleted>>

\* main.py:249-252: notify_user is back; del pending_posts[post_id], then
\* the edit of the admin's message is awaited.
ApproveDelete(h) ==
    /\ handler[h].kind = "approve"
    /\ handler[h].pc = "notify"
    /\ handler[h].post_id \in DOMAIN pending_posts
    /\ pending_posts' = Del(pending_posts, handler[h].post_id)
    /\ deleted' = deleted \cup
           {[message |-> pending_posts[handler[h].post_id].message,
             by |-> handler[h].post.message]}
    /\ handler' = [handler EXCEPT ![h].pc = "edit"]
    /\ last' = last
    /\ UNCHANGED <<user_entities, user_cooldowns, now, events,
                   channel, notices, accepted>>

\* main.py:249 raising KeyError (the id is gone), caught at main.py:258-260.
ApproveKeyError(h) ==
    /\ handler[h].kind = "approve"
    /\ handler[h].pc = "notify"
    /\ handler[h].post_id \notin DOMAIN pending_posts
    /\ Return(h, Ended("approve", handler[h].post_id, handler[h].post, {},
                 <<Resp("error", -1)>>))
    /\ UNCHANGED <<pending_posts, user_entities, user_cooldowns, now, events,
                   channel, notices, accepted, deleted>>

\* main.py:252-256: the edit and the final answer.
ApproveFinish(h) ==
    /\ handler[h].kind = "approve"
    /\ handler[h].pc = "edit"
    /\ Return(h, Ended("approve", handler[h].post_id, handler[h].post, {},
                 <<Resp("edited", handler[h].post_id), Resp("approved", -1)>>))
    /\ UNCHANGED <<pending_posts, user_entities, user_cooldowns, now, events,
                   channel, notices, accepted, deleted>>

\* ------------------------------------------------------- reject_callback
\* main.py:265-267: the sender is no admin.
RejectDenied(h, s, p) ==
    /\ CanStart(h)
    /\ ~IsAdmin(s)
    /\ events' = events + 1
    /\ Return(h, Ended("reject", -1, NoPost, {}, <<Resp("denied", -1)>>))
    /\ UNCHANGED <<pending_posts, user_entities, user_cooldowns, now,
                   channel, notices, accepted, deleted>>

\* main.py:270-273: the id is not in pending_posts.
RejectInvalid(h, s, p) ==
    /\ CanStart(h)
    /\ IsAdmin(s)
    /\ p \notin DOMAIN pending_posts
    /\ events' = events + 1
    /\ Return(h, Ended("reject", p, NoPost, {}, <<Resp("invalid_id", -1)>>))
    /\ UNCHANGED <<pending_posts, user_entities, user_cooldowns, now,
                   channel, notices, accepted, deleted>>

\* main.py:270-276: the id is pending; the handler reads the post and calls
\* notify_user with its submitter (o: the entity lookup when not cached).
RejectStart(h, s, p, o) ==
    /\ CanStart(h)
    /\ IsAdmin(s)
    /\ p \in DOMAIN pending_posts
    /\ events' = events + 1
    /\ LET post == pending_posts[p]
           entities == get_user_entity(user_entities, post.user_id, o)
       IN  /\ user_entities' = entities
           /\ notices' = notify_user(notices, entities, post.user_id,
                                     "rejected", post.message)
           /\ handler' = [handler EXCEPT ![h] =
                  [kind |-> "reject", pc |-> "notify", post_id |-> p,
                   post |-> post, idx |-> 0, noted |-> {}, resp |-> <<>>]]
    /\ last' = last
    /\ UNCHANGED <<pending_posts, user_cooldowns, now, channel, accepted, deleted>>

\* main.py:277-280: notify_user is back; del pending_posts[post_id], then
\* the edit of the admin's message is awaited.
RejectDelete(h) ==
    /\ handler[h].kind = "reject"
    /\ handler[h].pc = "notify"
    /\ handler[h].post_id \in DOMAIN pending_posts
    /\ pending_posts' = Del(pending_posts, handler[h].post_id)
    /\ deleted' = deleted \cup
           {[message |-> pending_posts[handler[h].post_id].message,
             by |-> handler[h].post.message]}
    /\ handler' = [handler EXCEPT ![h].pc = "edit"]
    /\ last' = last
    /\ UNCHANGED <<user_entities, user_cooldowns, now, events,
                   channel, notices, accepted>>

\* main.py:277 raising KeyError (the id is gone), caught at main.py:286-288.
RejectKeyError(h) ==
    /\ handler[h].kind = "reject"
    /\ handler[h].pc = "notify"
    /\ handler[h].post_id \notin DOMAIN pending_posts
    /\ Return(h, Ended("reject", handler[h].post_id, handler[h].post, {},
                 <<Resp("error", -1)>>))
    /\ UNCHANGED <<pending_posts, user_entities, user_cooldowns, now, events,
                   channel, notices, accepted, deleted>>

\* main.py:280-284: the edit and the final answer.
RejectFinish(h) ==
    /\ handler[h].kind = "reject"
    /\ handler[h].pc = "edit"
    /\ Return(h, Ended("reject", handler[h].post_id, handler[h].post, {},
                 <<Resp("edited", handler[h].post_id), Resp("rejected", -1)>>))
    /\ UNCHANGED <<pending_posts, user_entities, user_cooldowns, now, events,
                   channel, notices, accepted, deleted>>

\* --------------------------------------------------------- text commands
\* The commands setup_commands (main.py:50-63) puts on the menu of the bot
\* for an admin to type with an id.
Commands == {"/approve", "/reject"}

\* The NewMessage handlers registered in main.py (lines 144, 151 and 171)
\* that take a message with the given command and media: start_handler and
\* help_handler by their patterns, media_handler when the message carries
\* media.  approve_callback and reject_callback are registered for
\* CallbackQuery (main.py:230, main.py:262), not for messages.
NewMessageHandlers(command, has_media) ==
    (IF command = "/start" THEN {"start_handler"} ELSE {})
        \cup (IF command = "/help" THEN {"help_handler"} ELSE {})
        \cup (IF has_media THEN {"media_handler"} ELSE {})

\* A text message `command p` of sender s without media: the update is
\* dispatched to the handlers registered for it.  For /approve and /reject
\* there is none, so no code of the bot runs: nothing is answered and no
\* state is written.
TextCommand(s, command, p) ==
    /\ events < MaxEvents
    /\ NewMessageHandlers(command, FALSE) = {}
    /\ events' = events + 1
    /\ last' = Ended("command", -1, NoPost, {}, <<>>)
    /\ UNCHANGED <<pending_posts, user_entities, user_cooldowns, now, handler,
                   channel, notices, accepted, deleted>>

\* ------------------------------------------------------- the handlers
\* media_handler from its start to its first suspension or its return,
\* main.py:171-206
media_handler(h, s, media, t, d, o) ==
    \/ MediaNotUser(h, s, media)
    \/ MediaNotImage(h, s, media)
    \/ MediaCooldown(h, s, media, t)
    \/ MediaAccept(h, s, media, t, d, o)

\* approve_callback from its start to its first suspension or its return,
\* main.py:230-244
approve_callback(h, s, p) ==
    \/ ApproveDenied(h, s, p)
    \/ ApproveInvalid(h, s, p)
    \/ ApproveStart(h, s, p)

\* reject_callback from its start to its first suspension or its return,
\* main.py:262-276
reject_callback(h, s, p, o) ==
    \/ RejectDenied(h, s, p)
    \/ RejectInvalid(h, s, p)
    \/ RejectStart(h, s, p, o)

Next ==
    \/ \E h \in Handlers, s \in MediaSenders, media \in Media :
           \/ MediaNotUser(h, s, media)
           \/ MediaNotImage(h, s, media)
           \/ \E t \in Clock : MediaCooldown(h, s, media, t)
           \/ \E t \in Clock, d \in 0..1, o \in Outcome :
                  MediaAccept(h, s, media, t, d, o)
    \/ \E h \in Handlers, o \in Outcome : MediaFanout(h, o)
    \/ \E h \in Handlers, s \in Senders, p \in PostIds : approve_callback(h, s, p)
    \/ \E h \in Handlers : ApproveRelayFailed(h)
    \/ \E h \in Handlers, o \in Outcome : ApproveRelayed(h, o)
    \/ \E h \in Handlers : ApproveDelete(h)
    \/ \E h \in Handlers : ApproveKeyError(h)
    \/ \E h \in Handlers : ApproveFinish(h)
    \/ \E h \in Handlers, s \in Senders, p \in PostIds :
           \/ RejectDenied(h, s, p)
           \/ RejectInvalid(h, s, p)
           \/ \E o \in Outcome : RejectStart(h, s, p, o)
    \/ \E h \in Handlers : RejectDelete(h)
    \/ \E h \in Handlers : RejectKeyError(h)
    \/ \E h \in Handlers : RejectFinish(h)
    \/ \E s \in Senders, command \in Commands, p \in PostIds :
           TextCommand(s, command, p)

Spec == Init /\ [][Next]_vars

\* ------------------------------------------------------------ properties
\* The submissions taken so far, by the number of their message.
Submissions == 1..Len(accepted)

\* How often message m was sent to the channel.
Relays(m) == CopiesIn(m, channel)

\* How often the submitter of submission m was sent the notice `text`.
NoticeCount(m, text) ==
    CopiesIn([user_id |-> accepted[m].user_id, text |-> text, message |-> m], notices)

\* Submission m is an entry of the registry.
InRegistry(m) == \E id \in DOMAIN pending_posts : pending_posts[id].message = m

\* C1: the k-th accepted submission gets id k-1, so the ids assigned are
\* distinct and strictly increasing from 0, whatever was removed in between.
C1_IdsNeverReused ==
    \A k \in Submissions : accepted[k].post_id = k - 1

\* C2: no submission is both relayed to the channel and reported to its
\* submitter as rejected.
C2_OneTerminalOutcome ==
    \A m \in Submissions : ~(Relays(m) > 0 /\ NoticeCount(m, "rejected") > 0)

\* C3: a submission is relayed to the channel at most once and its submitter
\* receives at most one approval notice.
C3_ApprovedAtMostOnce ==
    \A m \in Submissions : Relays(m) <= 1 /\ NoticeCount(m, "approved") <= 1

\* C4: every accepted submission is in the registry under its id, with its
\* submitter and payload unchanged, until a del of an approve or reject
\* handler removes it.
C4_PendingUntilResolved ==
    \A m \in Submissions :
        (\A x \in deleted : x.message # m) =>
            /\ accepted[m].post_id \in DOMAIN pending_posts
            /\ pending_posts[accepted[m].post_id] =
                   [user_id |-> accepted[m].user_id, message |-> m,
                    timestamp |-> accepted[m].timestamp]

\* The last handler that returned gave exactly the response `text`.
LastGave(kind, text) ==
    /\ last.kind = kind
    /\ Len(last.resp) = 1
    /\ last.resp[1].text = text

\* C5: a step in which a media handler starts and returns with the
\* remaining-time message leaves the registry and the cooldown map as they
\* were; and a submission is taken only from a user who has no cooldown
\* entry or whose cooldown has elapsed at the clock reading of the handler.
C5_CooldownRejectKeepsState ==
    [][/\ (events' = events + 1 /\ handler' = handler /\ LastGave("media", "wait")')
          => /\ pending_posts' = pending_posts
             /\ user_cooldowns' = user_cooldowns
             /\ accepted' = accepted
             /\ last'.resp[1].arg > 0
             /\ \E u \in DOMAIN user_cooldowns :
                    user_cooldowns[u] - now' = last'.resp[1].arg
       /\ (Len(accepted') = Len(accepted) + 1)
          => LET a == accepted'[Len(accepted')]
             IN  \/ a.user_id \notin DOMAIN user_cooldowns
                 \/ a.timestamp >= user_cooldowns[a.user_id]]_vars

\* The second image of a user within the cooldown was answered with the
\* one minute left, and the registry holds the first submission alone.
C5_Witness ==
    /\ LastGave("media", "wait")
    /\ last.resp[1].arg = 1
    /\ Len(accepted) = 1
    /\ DOMAIN pending_posts = {0}
    /\ pending_posts[0].message = 1

LastOf(u) ==
    LET S == {k \in Submissions : accepted[k].user_id = u}
    IN  IF S = {} THEN 0 ELSE CHOOSE k \in S : \A j \in S : j <= k

\* C7: for a user without a submission the check allows, with no remaining
\* time; after a submission whose cooldown was set at t the check refuses at
\* every time before t + cooldown, with remaining = t + cooldown - now > 0,
\* and allows at t + cooldown and after.
C7_CooldownGate ==
    \A u \in UserSenders, t \in 0..(MaxTime + POST_COOLDOWN_MINUTES + 1) :
        LET r == can_user_post(user_cooldowns, u, t)
            k == LastOf(u)
        IN  IF k = 0
            THEN r.can_post /\ r.remaining = -1
            ELSE LET end == accepted[k].set_at + POST_COOLDOWN_MINUTES
                 IN  /\ r.can_post <=> t >= end
                     /\ r.can_post => r.remaining = -1
                     /\ ~r.can_post => (r.remaining = end - t /\ r.remaining > 0)

\* A user was refused one minute before the end of the cooldown and taken
\* again exactly at its end.
C7_Witness ==
    \E i, j \in Submissions :
        /\ i < j
        /\ accepted[i].user_id = accepted[j].user_id
        /\ accepted[j].timestamp = accepted[i].set_at + POST_COOLDOWN_MINUTES

\* C8: a step in which approve_callback or reject_callback starts for a
\* sender outside the allowlist answers the denial and returns at once;
\* registry, cooldown map, channel and notices stay as they were.
C8_NonAdminDenied ==
    [][(/\ events' = events + 1
        /\ accepted' = accepted
        /\ (last' = last \/ last'.kind # "media")
        /\ \E h \in Handlers, s \in Senders \ AdminSet, p \in PostIds :
               \/ approve_callback(h, s, p)
               \/ \E o \in Outcome : reject_callback(h, s, p, o))
        => /\ last'.kind \in {"approve", "reject"}
           /\ last'.resp = <<Resp("denied", -1)>>
           /\ handler' = handler
           /\ UNCHANGED <<pending_posts, user_cooldowns, channel, notices,
                          accepted, deleted>>]_vars

\* A non-admin pressed approve or reject while id 0 was pending: the answer
\* is the denial and id 0 is pending still.
C8_Witness ==
    /\ last.kind \in {"approve", "reject"}
    /\ last.resp = <<Resp("denied", -1)>>
    /\ 0 \in DOMAIN pending_posts
    /\ \A h \in Handlers : handler[h].pc = "idle"

C10_RemovedOnRelayFailure ==
    LastGave("approve", "relay_failed") => last.post_id \notin DOMAIN pending_posts

\* C10 amended: the step in which an approve handler comes back from a
\* failed relay answers the failure and leaves the registry as it was: it
\* removes nothing.
C10_RelayFailureKeepsPending ==
    [][\A h \in Handlers :
           (handler[h].kind = "approve" /\ handler[h].pc = "relay"
                /\ handler'[h].pc = "idle") =>
               /\ LastGave("approve", "relay_failed")'
               /\ last'.post_id = handler[h].post_id
               /\ pending_posts' = pending_posts
               /\ deleted' = deleted
               /\ channel' = channel
               /\ notices' = notices]_vars

\* The relay of a pending post failed and the post is pending still, under
\* its id and unchanged.
C10_Witness ==
    /\ LastGave("approve", "relay_failed")
    /\ last.post_id \in DOMAIN pending_posts
    /\ pending_posts[last.post_id] = last.post
    /\ Relays(last.post.message) = 0

\* C11: a step in which approve_callback or reject_callback starts for an
\* admin with an id that is not in the registry answers the invalid-id
\* error and returns at once; registry, cooldown map, channel and notices
\* stay as they were.
C11_UnknownIdChangesNothing ==
    [][(/\ events' = events + 1
        /\ accepted' = accepted
        /\ (last' = last \/ last'.kind \in {"approve", "reject"})
        /\ \E h \in Handlers, s \in AdminSet, p \in PostIds \ DOMAIN pending_posts :
               \/ approve_callback(h, s, p)
               \/ \E o \in Outcome : reject_callback(h, s, p, o))
        => /\ last'.kind \in {"approve", "reject"}
           /\ last'.resp = <<Resp("invalid_id", -1)>>
           /\ handler' = handler
           /\ UNCHANGED <<pending_posts, user_cooldowns, channel, notices,
                          accepted, deleted>>]_vars

\* An admin pressed approve or reject for id 1 while id 0 alone was pending:
\* the answer is the invalid-id error and id 0 is pending still, neither
\* relayed nor notified.
C11_Witness ==
    /\ last.kind \in {"approve", "reject"}
    /\ last.resp = <<Resp("invalid_id", -1)>>
    /\ last.post_id = 1
    /\ DOMAIN pending_posts = {0}
    /\ channel = EmptyBag
    /\ notices = EmptyBag

\* C12: a step in which an admin's text command /approve p or /reject p is
\* dispatched does what the button does from that state: for an id that is
\* not pending the admin is answered the invalid-id error, for a pending id
\* the approve or the reject of that id is under way.
C12_CommandActsAsButton ==
    [][\A s \in AdminSet, command \in Commands, p \in PostIds :
           TextCommand(s, command, p) =>
               IF p \notin DOMAIN pending_posts
               THEN /\ Len(last'.resp) = 1
                    /\ last'.resp[1].text = "invalid_id"
               ELSE \E h \in Handlers :
                        /\ handler'[h].post_id = p
                        /\ handler'[h].kind =
                               (IF command = "/approve" THEN "approve" ELSE "reject")]_vars

\* C13: the step that inserts a submission leaves its handler in the loop
\* over the admins, at the first of them, whatever the outcome of the
\* acknowledgement; and a handler leaves the loop only after the round of
\* the last admin, the registry untouched by the rounds.
C13_EveryAdminTried ==
    [][/\ (Len(accepted') = Len(accepted) + 1) =>
              \E h \in Handlers :
                  /\ handler[h].pc = "idle"
                  /\ handler'[h].pc = "fanout"
                  /\ handler'[h].idx = 1
                  /\ handler'[h].post_id = accepted'[Len(accepted')].post_id
       /\ \A h \in Handlers :
              (handler[h].pc = "fanout" /\ handler'[h] # handler[h]) =>
                  /\ pending_posts' = pending_posts
                  /\ IF handler[h].idx = Len(ADMIN_IDS)
                     THEN handler'[h].pc = "idle"
                     ELSE /\ handler'[h].pc = "fanout"
                          /\ handler'[h].idx = handler[h].idx + 1]_vars

\* C14: every handler that has returned gave at least one response to the
\* actor that triggered it; the one return without a response is that of
\* media_handler for a sender that is no User, which is no failure.  (A
\* return without a response after the insert is the handler left by the
\* exception of the respond of line 204.)
C14_FailurePathsRespond ==
    (last.pc = "done" /\ last.kind \in {"media", "approve", "reject"}) =>
        \/ Len(last.resp) >= 1
        \/ (last.kind = "media" /\ last.post_id = -1)

\* The ids a response carries.
IdsIn(r) == {r.arg} \ {-1}

\* C15: a step in which an approve or reject handler starts and returns
\* with the invalid-id error carries in that error the ids that are pending
\* at that moment.
C15_InvalidIdListsPending ==
    [][(/\ events' = events + 1
        /\ handler' = handler
        /\ last'.kind \in {"approve", "reject"}
        /\ Len(last'.resp) = 1
        /\ last'.resp[1].text = "invalid_id")
        => IdsIn(last'.resp[1]) = DOMAIN pending_posts]_vars

\* The media the claim lets through: a native photo, or a document with one
\* of the four image MIME types.
C16_Qualifies(media) ==
    \/ media.type = "photo"
    \/ /\ media.type = "document"
       /\ media.mime_type \in {"image/jpeg", "image/png", "image/gif", "image/webp"}

\* The steps in which an update is dispatched and media_handler may have
\* run: a submission was taken, or a media handler returned at once.
C16_MediaStep ==
    /\ events' = events + 1
    /\ \/ accepted' # accepted
       \/ (handler' = handler /\ last'.kind = "media")

\* C16 as stated: a step of media_handler for a message with any other
\* media, whoever sent it, answers the rejection message and leaves
\* registry, cooldown map and admin notifications untouched.
C16_OtherMediaRejected ==
    [][C16_MediaStep =>
       \A h \in Handlers, s \in MediaSenders, media \in Media :
           (/\ ~C16_Qualifies(media)
            /\ \/ MediaNotUser(h, s, media)
               \/ MediaNotImage(h, s, media)
               \/ \E t \in Clock : MediaCooldown(h, s, media, t)
               \/ \E t \in Clock, d \in 0..1, o \in Outcome :
                      MediaAccept(h, s, media, t, d, o))
           => /\ LastGave("media", "not_image")'
              /\ handler' = handler
              /\ UNCHANGED <<pending_posts, user_cooldowns, accepted>>]_vars

\* C16 amended: a step of media_handler for a message with any other media
\* creates no submission and leaves registry, cooldown map and admin
\* notifications untouched; a sender that is a User is answered the
\* rejection message, a sender that is no User is answered nothing.
C16_OtherMediaCreatesNothing ==
    [][C16_MediaStep =>
       \A h \in Handlers, s \in MediaSenders, media \in Media :
           (/\ ~C16_Qualifies(media)
            /\ \/ MediaNotUser(h, s, media)
               \/ MediaNotImage(h, s, media)
               \/ \E t \in Clock : MediaCooldown(h, s, media, t)
               \/ \E t \in Clock, d \in 0..1, o \in Outcome :
                      MediaAccept(h, s, media, t, d, o))
           => /\ last'.kind = "media"
              /\ IF s \in UserSenders
                 THEN LastGave("media", "not_image")'
                 ELSE last'.resp = <<>>
              /\ handler' = handler
              /\ UNCHANGED <<pending_posts, user_cooldowns, accepted>>]_vars

\* A user with a pending submission sent media that is no image: the
\* rejection message was the answer and the registry holds the one
\* submission.
C16_Witness ==
    /\ LastGave("media", "not_image")
    /\ Len(accepted) = 1
    /\ DOMAIN pending_posts = {0}
    /\ \A h \in Handlers : handler[h].pc = "idle"

\* C17: the cooldown map has an entry exactly for the users with an
\* accepted submission, and the entry is the recorded intake time of the
\* user's last accepted submission plus the cooldown.
C17_CooldownFromIntakeTime ==
    /\ DOMAIN user_cooldowns = {accepted[k].user_id : k \in Submissions}
    /\ \A u \in DOMAIN user_cooldowns :
           user_cooldowns[u] = accepted[LastOf(u)].timestamp + POST_COOLDOWN_MINUTES

\* C18: every submission taken comes from a User that is not in the admin
\* allowlist.
C18_SubmitterNoAdmin ==
    \A k \in Submissions :
        /\ accepted[k].user_id \in UserSenders
        /\ accepted[k].user_id \notin AdminSet

\* C19: every del of an approve or reject handler removed the submission
\* that the handler had read, and every submission that is no longer in the
\* registry was relayed or its submitter was sent the rejection notice.
C19_DeletesWhatItRead ==
    /\ \A x \in deleted : x.message = x.by
    /\ \A m \in Submissions :
           ~InRegistry(m) => (Relays(m) > 0 \/ NoticeCount(m, "rejected") > 0)

\* C20: every submission in the registry has a cooldown entry of its
\* submitter that ends no earlier than its intake time plus the cooldown;
\* and the users with a cooldown entry are the users with a submission taken.
C20_PendingHasCooldown ==
    /\ \A id \in DOMAIN pending_posts :
           /\ pending_posts[id].user_id \in DOMAIN user_cooldowns
           /\ user_cooldowns[pending_posts[id].user_id] >=
                  pending_posts[id].timestamp + POST_COOLDOWN_MINUTES
    /\ DOMAIN user_cooldowns = {accepted[k].user_id : k \in Submissions}

\* A media handler is suspended in its admin loop: its submission is in the
\* registry and the cooldown of its submitter, set a minute after the
\* intake time was read, ends a minute after intake time plus cooldown.
C20_Witness ==
    \E h \in Handlers :
        /\ handler[h].pc = "fanout"
        /\ handler[h].post_id \in DOMAIN pending_posts
        /\ pending_posts[handler[h].post_id] = handler[h].post
        /\ user_cooldowns[handler[h].post.user_id] =
               handler[h].post.timestamp + POST_COOLDOWN_MINUTES + 1
====
